---- MODULE Spec2Model ----
(***************************************************************************)
(* Orchestration core of the visual QA agent: the message bus, the worker  *)
(* (Agent) contract as the concrete agents implement it, and the           *)
(* CoordinatorAgent: dispatch, join, synthesis and executive summary.      *)
(*                                                                         *)
(* JavaScript runs one task at a time.  An action of this model is one     *)
(* synchronous stretch of code between two suspension points (an await of  *)
(* an external operation); the dispatch loop is split per worker, and no   *)
(* worker continuation can run while the loop is running.                  *)
(*                                                                         *)
(* Spec is one run of orchestrate(); TraceSpec is the same run with an     *)
(* observer subscribed to the bus; LiveSpec adds the scheduling to Spec;   *)
(* SynthSpec applies synthesize() to arbitrary findings; BusSpec exercises *)
(* the MessageBus on its own; WorkerSpec calls analyze() repeatedly on one *)
(* worker instance; OverlapSpec calls orchestrate() repeatedly on one      *)
(* coordinator; AskSpec is Agent.ask() on a bus whose callbacks publish.   *)
(***************************************************************************)
EXTENDS Integers, Sequences, FiniteSets, TLC

\* ---------------------------------------------------------------- bounds
MaxAgents == 2
MaxSubscribers == 1
MaxIssues == 4
MaxFindings == 2
MaxRegistrations == 3
MaxClock == 3
MaxCalls == 2

\* ------------------------------------------------------------ vocabulary
Severity == {"critical", "high", "medium", "low", "info"}

AgentKinds == {"rule", "ai"}

\* Subscriber callbacks: one that returns normally, one that throws on any
\* message it chooses to, and one that returns normally and keeps a record of
\* the messages it is invoked with (a bus observer such as the UI).
CallbackKinds == {"steady", "flaky", "recorder"}

SeqUpTo(S, n) == UNION {[1..k -> S] : k \in 0..n}

\* Issue lists the rule-based checks of a worker produce on the pages of a run.
SampleIssueLists ==
    { <<>>,
      <<"critical", "high", "low">>,
      <<"critical", "medium">> }

VARIABLES
    agents,            \* CoordinatorAgent.agents: the registered workers, by kind
    subscribers,       \* MessageBus.subscribers, in subscription order
    pc,                \* position of orchestrate()
    nextIdx,           \* index of the next worker the map() callback is run for
    wpc,               \* per worker: position of its analyze()
    findings,          \* per worker: the local `findings` object of a suspended analyze()
    localIssues,       \* per worker: the local `issues` array of analyze()
    werror,            \* per worker: message of the error its analyze() rejected with
    agentPromises,     \* the promises returned by the map() callbacks
    allFindings,       \* CoordinatorAgent.allFindings
    synthesized,       \* the value synthesize() returned in this run
    executiveSummary,  \* the value generateExecutiveSummary() resolved with
    aiRejected,        \* callAI rejected inside generateExecutiveSummary()
    result,            \* the value orchestrate() resolved with
    failure,           \* what made orchestrate() reject
    observed,          \* per agent id (0: the coordinator): the messages of that
                       \* agent a recorder callback was invoked with, in order
    aiFailed,          \* the workers inside whose analyze() callAI rejected
    delivery,          \* the last MessageBus.publish call: what it did
    busOp,             \* the last operation called on the MessageBus
    clock,             \* Date.now()
    startTime,         \* Agent.startTime of the one worker instance under test
    calls,             \* the analyze() invocations on that instance
    runs,              \* the orchestrate() invocations on one coordinator instance
    asks,              \* the Agent.ask() invocations: correlationId, promise state
    inbox,             \* per recording callback: the messages it was invoked with
    issued             \* the messages publish() was called with, in call order

vars == <<agents, subscribers, pc, nextIdx, wpc, findings, localIssues, werror,
          agentPromises, allFindings, synthesized,
          executiveSummary, aiRejected, result, failure, observed, aiFailed,
          delivery, busOp, clock, startTime, calls, runs, asks, inbox, issued>>

\* The invocations of orchestrate() on a shared coordinator and the ask
\* protocol, which have their own specifications.
sessionVars == <<runs, asks, inbox, issued>>

\* The state of the bus and of the worker instance under test, which the
\* steps of orchestrate() leave alone.
benchVars == <<delivery, busOp, clock, startTime, calls, sessionVars>>

None == [none |-> TRUE]

\* No overlapping invocation and no ask is under test.
NoSession ==
    /\ runs = <<>>
    /\ asks = <<>>
    /\ inbox = <<>>
    /\ issued = <<>>

\* No bus operation has been observed and no worker instance is under test.
NoBench ==
    /\ delivery = None
    /\ busOp = None
    /\ clock = 0
    /\ startTime = 0
    /\ calls = <<>>
    /\ NoSession

NumAgents == Len(agents)

AgentIds == 1..NumAgents

\* The name of the i-th registered worker (Agent.name).
AgentName(i) == <<agents[i], i>>


\* ------------------------------------------------------------ message bus
\* MessageBus.publish is subscribers.forEach(sub => sub(message)) with no
\* try/catch: the outcome of one publish is 0 when no callback throws, or the
\* index k of the first callback that throws; the callbacks after k are not
\* invoked and the error propagates to the publisher.
PublishOutcomes == {0} \cup {k \in DOMAIN subscribers : subscribers[k] = "flaky"}

\* error.message of the error callback k throws.
ErrorMessage(k) == <<"callback", k>>

\* The message of no error: nothing was thrown.
NoError == <<>>

\* A publish with outcome o invokes the callbacks in subscription order up to
\* and including the one that throws: a recorder is invoked when no callback
\* throws or when it is subscribed before the one that does.
Observes(o) ==
    \E r \in DOMAIN subscribers : subscribers[r] = "recorder" /\ (o = 0 \/ r < o)

\* What the recorder keeps of a run of publishes of which the last one has
\* outcome o and the ones before it outcome 0.
Observed(msgs, o) ==
    IF msgs = <<>> THEN <<>>
    ELSE (IF Observes(0) THEN SubSeq(msgs, 1, Len(msgs) - 1) ELSE <<>>)
         \o (IF Observes(o) THEN <<msgs[Len(msgs)]>> ELSE <<>>)

\* ---------------------------------------------------------------- workers
\* Confidence, in hundredths, of the findings object analyze() creates.
BaseConfidence(kind) == IF kind = "rule" THEN 100 ELSE 90

\* Confidence set by the worker's own catch block.
ErrorConfidence(kind) == IF kind = "rule" THEN 50 ELSE 30

\* Confidence after a successful AI call.
AIConfidence == 95

\* issues.push({severity, title, ...}): the k-th issue a worker found.
MkIssues(sevs) == [k \in DOMAIN sevs |-> [severity |-> sevs[k], title |-> k]]

\* The findings object analyze() creates before its try block.
InitialFindings(i) ==
    [agentId |-> i, agentName |-> AgentName(i),
     category |-> IF agents[i] = "rule" THEN "structure" ELSE "accessibility",
     issues |-> <<>>, suggestions |-> <<>>,
     confidence |-> BaseConfidence(agents[i]), analysisTime |-> 0]

\* The worker's own catch block: reduced confidence and an error suggestion.
WorkerCatch(i, f, k) ==
    [f EXCEPT !.confidence = ErrorConfidence(agents[i]),
              !.suggestions = Append(@, <<"Error during analysis: ", ErrorMessage(k)>>)]

\* The statements after the try/catch: findings.analysisTime = Date.now() -
\* this.startTime, then reportFindings(findings) publishes a FINDINGS message
\* outside any try, then analyze returns.  oF is the outcome of that publish.
Finish(f, oF) ==
    LET g == [f EXCEPT !.analysisTime = clock - startTime]
    IN  IF oF # 0
        THEN [state |-> "rejected", findings |-> g, reason |-> ErrorMessage(oF)]
        ELSE [state |-> "returned", findings |-> g, reason |-> NoError]

\* The end of the try block: findings.issues = issues; updateProgress(100).
\* o100 is the outcome of that publish.
Complete(i, f, iss, o100, oF) ==
    LET g == [f EXCEPT !.issues = iss]
    IN  IF o100 # 0 THEN Finish(WorkerCatch(i, g, o100), oF) ELSE Finish(g, oF)

\* analyze() from its call to its first suspension or its end.  o1 is the
\* outcome of the first publish (outside the try: a throw rejects analyze).
\* oB and oB2 are the outcomes of the publishes in the try block before the
\* issues are stored; a throw is caught by the worker, which keeps
\* issues = [].  DiscoveryAgent (rule) publishes 30, 60, 80 and then sets its
\* suggestions; AccessibilityAgent (ai) publishes 15, 30, 45 (oB), pushes its
\* contrast suggestion, publishes 60, 75, 90 (oB2) and awaits callAI.
AnalyzeStart(i, iss, o1, oB, oB2, o100, oF) ==
    LET f0 == InitialFindings(i)
        f1 == [f0 EXCEPT !.suggestions = <<"contrast check">>]
    IN  IF o1 # 0
        THEN [state |-> "rejected", findings |-> f0, reason |-> ErrorMessage(o1)]
        ELSE IF oB # 0
        THEN Finish(WorkerCatch(i, f0, oB), oF)
        ELSE IF agents[i] = "rule"
        THEN Complete(i, [f0 EXCEPT !.suggestions = <<"links", "buttons", "controls">>],
                      iss, o100, oF)
        ELSE IF oB2 # 0
        THEN Finish(WorkerCatch(i, f1, oB2), oF)
        ELSE [state |-> "await", findings |-> f1, reason |-> NoError]

\* analyze() of an AI-assisted worker from the settling of callAI to its end.
\* A rejection of callAI is caught by the inner try/catch.
AnalyzeResume(i, f, iss, aiOk, o100, oF) ==
    LET g == IF aiOk
             THEN [f EXCEPT !.suggestions = Append(@, "ai analysis"),
                            !.confidence = AIConfidence]
             ELSE [f EXCEPT !.suggestions = @ \o <<"checked", "found">>]
    IN  Complete(i, g, iss, o100, oF)

\* Agent.updateProgress: the PROGRESS_UPDATE message with payload.progress = p.
ProgressMsg(p) == [type |-> "PROGRESS_UPDATE", payload |-> p]

\* Agent.reportFindings: the FINDINGS message; of its payload (the findings)
\* the model keeps the agent id.
FindingsMsg(f) == [type |-> "FINDINGS", payload |-> f.agentId]

\* The progress value of the updateProgress call before the try block.
FirstProgress(kind) == IF kind = "rule" THEN 10 ELSE 5

\* The progress values of the updateProgress calls of the try block up to the
\* first suggestion (DiscoveryAgent: all of them before 100).
BodyProgress(kind) == IF kind = "rule" THEN <<30, 60, 80>> ELSE <<15, 30, 45>>

\* AccessibilityAgent: the updateProgress calls between the contrast
\* suggestion and the AI call.
BodyProgress2 == <<60, 75, 90>>

\* The messages of the first n updateProgress calls of a block.
ProgressMsgs(values, n) == [k \in 1..n |-> ProgressMsg(values[k])]

\* What is observed of the messages worker i publishes during AnalyzeStart.
\* pB (pB2) is the position in its block of the updateProgress call that
\* threw when oB (oB2) is a throw.
StartMessages(i, o1, oB, pB, oB2, pB2, o100, oF) ==
    LET kind == agents[i]
        first == <<ProgressMsg(FirstProgress(kind))>>
        body == ProgressMsgs(BodyProgress(kind), 3)
        fin == Observed(<<FindingsMsg(InitialFindings(i))>>, oF)
    IN  IF o1 # 0 THEN Observed(first, o1)
        ELSE IF oB # 0
        THEN Observed(first \o ProgressMsgs(BodyProgress(kind), pB), oB) \o fin
        ELSE IF kind = "rule"
        THEN Observed(first \o body \o <<ProgressMsg(100)>>, o100) \o fin
        ELSE IF oB2 # 0
        THEN Observed(first \o body \o ProgressMsgs(BodyProgress2, pB2), oB2) \o fin
        ELSE Observed(first \o body \o ProgressMsgs(BodyProgress2, 3), 0)

\* What is observed of the messages worker i publishes during AnalyzeResume.
ResumeMessages(i, o100, oF) ==
    Observed(<<ProgressMsg(100)>>, o100)
    \o Observed(<<FindingsMsg(InitialFindings(i))>>, oF)

\* ------------------------------------------------------------ coordinator
\* Variant: the progress counts the workers still to be started.
RunningProgressRemaining(i) == 70 - ((i - 1) * 60) \div NumAgents

\* const progress = 10 + (index / this.agents.length) * 60, index from 0; the
\* division is exact for the numbers of agents modelled.
RunningProgress(i) == 10 + ((i - 1) * 60) \div NumAgents

\* Variant: the catch drops the reason and keeps a worker-style confidence.
DegradedFindingsNoReason(i, reason) ==
    [agentId |-> i, agentName |-> AgentName(i), category |-> "error",
     issues |-> <<>>, suggestions |-> << <<"Agent failed: ">> >>,
     confidence |-> 30, analysisTime |-> 0]

\* The record the catch of the map() callback returns for a rejected analyze.
DegradedFindings(i, reason) ==
    [agentId |-> i, agentName |-> AgentName(i), category |-> "error",
     issues |-> <<>>, suggestions |-> << <<"Agent failed: ", reason>> >>,
     confidence |-> 0, analysisTime |-> 0]

\* A promise that has not settled; its value is never read.
Pending ==
    [state |-> "pending",
     value |-> [agentId |-> 0, agentName |-> <<>>, category |-> "",
                issues |-> <<>>, suggestions |-> <<>>, confidence |-> 0,
                analysisTime |-> 0]]

\* The promise of a map() callback that threw before it called analyze.
Rejected(k) == [state |-> "rejected", value |-> ErrorMessage(k)]

\* The promise of the map() callback for worker i once analyze has settled:
\* `return await agent.analyze(context)` inside try/catch.
MapCallbackResult(i, r) ==
    IF r.state = "returned" THEN [state |-> "fulfilled", value |-> r.findings]
    ELSE IF r.state = "rejected"
    THEN [state |-> "fulfilled", value |-> DegradedFindings(i, r.reason)]
    ELSE Pending

\* Variant: the join fires on the first fulfilled promise (Promise.any).
SomeFulfilled(ps) == \E i \in DOMAIN ps : ps[i].state = "fulfilled"

\* Promise.all resolves once every promise is fulfilled ...
AllFulfilled(ps) == \A i \in DOMAIN ps : ps[i].state = "fulfilled"

\* ... and rejects as soon as one of them is rejected.
AnyRejected(ps) == \E i \in DOMAIN ps : ps[i].state = "rejected"

\* Variant: the records of the failed workers are filtered out of the result.
PromiseAllValuesFiltered(ps) ==
    LET vs == [i \in DOMAIN ps |-> ps[i].value]
    IN  SelectSeq(vs, LAMBDA f : f.category # "error")

\* The array Promise.all resolves with: the values in the order of the input.
PromiseAllValues(ps) == [i \in DOMAIN ps |-> ps[i].value]

\* -------------------------------------------------------------- synthesis
\* severityOrder[severity] || 0
SeverityRank(sev) ==
    CASE sev = "critical" -> 4
      [] sev = "high" -> 3
      [] sev = "medium" -> 2
      [] sev = "low" -> 1
      [] OTHER -> 0

\* Variant: the comparator with its operands swapped (ascending order).
CompareAscending(a, b) == SeverityRank(a.severity) - SeverityRank(b.severity)

\* The comparator passed to sort: severityB - severityA.
Compare(a, b) == SeverityRank(b.severity) - SeverityRank(a.severity)

\* Variant: an unstable sort that puts x before the elements it ties with.
RECURSIVE InsertBeforeTies(_, _)
InsertBeforeTies(x, sorted) ==
    IF sorted = <<>> THEN <<x>>
    ELSE IF SeverityRank(Head(sorted).severity) > SeverityRank(x.severity)
    THEN <<Head(sorted)>> \o InsertBeforeTies(x, Tail(sorted))
    ELSE <<x>> \o sorted

\* Array.prototype.sort is stable: x goes after every element it does not
\* have to precede (Compare <= 0) and before the first one it precedes.
RECURSIVE InsertSorted(_, _)
InsertSorted(x, sorted) ==
    IF sorted = <<>> THEN <<x>>
    ELSE IF Compare(Head(sorted), x) <= 0
    THEN <<Head(sorted)>> \o InsertSorted(x, Tail(sorted))
    ELSE <<x>> \o sorted

RECURSIVE SortIssues(_)
SortIssues(issues) ==
    IF issues = <<>> THEN <<>>
    ELSE InsertSorted(issues[Len(issues)], SortIssues(SubSeq(issues, 1, Len(issues) - 1)))

\* Variant: the issue is tagged with this.name, the coordinator's own name.
TagIssueAsCoordinator(issue, f) ==
    [severity |-> issue.severity, title |-> issue.title, source |-> <<"coordinator", 0>>]

\* issue => ({...issue, source: f.agentName})
TagIssue(issue, f) ==
    [severity |-> issue.severity, title |-> issue.title, source |-> f.agentName]

\* findings.flatMap(f => f.issues.map(tag))
RECURSIVE FlatMapIssues(_)
FlatMapIssues(fs) ==
    IF fs = <<>> THEN <<>>
    ELSE [k \in DOMAIN Head(fs).issues |-> TagIssue(Head(fs).issues[k], Head(fs))]
         \o FlatMapIssues(Tail(fs))

\* Variant: the count takes every issue ranked at least as high as sev.
CountSeverityOrHigher(issues, sev) ==
    Cardinality({k \in DOMAIN issues :
                    SeverityRank(issues[k].severity) >= SeverityRank(sev)})

\* allIssues.filter(i => i.severity === sev).length
CountSeverity(issues, sev) ==
    Cardinality({k \in DOMAIN issues : issues[k].severity = sev})

\* CoordinatorAgent.synthesize
Synthesize(fs) ==
    LET allIssues == SortIssues(FlatMapIssues(fs))
    IN  [summary |->
            [totalIssues |-> Len(allIssues),
             critical |-> CountSeverity(allIssues, "critical"),
             high |-> CountSeverity(allIssues, "high"),
             medium |-> CountSeverity(allIssues, "medium"),
             low |-> CountSeverity(allIssues, "low"),
             agentStats |-> [k \in DOMAIN fs |->
                 [agent |-> fs[k].agentName,
                  issuesFound |-> Len(fs[k].issues),
                  confidence |-> fs[k].confidence,
                  analysisTime |-> fs[k].analysisTime]]],
         prioritizedIssues |-> allIssues,
         agentFindings |-> fs]

\* ---------------------------------------------------------------- summary
\* The template string of the catch block of generateExecutiveSummary.
FallbackSummary(syn) ==
    <<"Multi-agent analysis complete. Found ", syn.summary.totalIssues,
      " issues across ", Len(syn.summary.agentStats), " specialized agents.">>

\* What callAI can resolve with: response.choices[0].message.content || ''.
AITexts == {<<"ai summary">>, <<>>}

\* callAI reads the API key from chrome.storage on every call:
\* createOpenAIClient throws when none is stored; with a key the completion
\* request resolves or rejects.
CallAIOutcomes == {"resolved", "no api key", "request failed"}

\* ---------------------------------------------------------------- service
\* MultiAgentQAService.runAnalysis: the object it returns is
\* {...result, totalAnalysisTime}, result being what orchestrate resolved
\* with; began is the value of Date.now() when runAnalysis was called.
RunAnalysis(res, began) ==
    [executiveSummary |-> res.executiveSummary,
     allFindings |-> res.allFindings,
     synthesizedReport |-> res.synthesizedReport,
     totalAnalysisTime |-> clock - began]

\* Math.max(0, Math.min(100, x))
Clamp(x) == IF x < 0 THEN 0 ELSE IF x > 100 THEN 100 ELSE x

\* multiAgentReport.agentFindings.find(f => f.agentId === id): the record
\* found gives the number of its issues, a missing record 0.
IssuesOfAgent(fs, id) ==
    IF \E k \in DOMAIN fs : fs[k].agentId = id
    THEN Len(fs[CHOOSE k \in DOMAIN fs :
                   /\ fs[k].agentId = id
                   /\ \A j \in 1..(k - 1) : fs[j].agentId # id].issues)
    ELSE 0

\* MultiAgentQAService.convertToBugReport: the issue counts are read from
\* synthesizedReport.prioritizedIssues, the category scores from
\* multiAgentReport.agentFindings; reading .find of a field the object does not
\* have throws a TypeError.  Of the category scores the model keeps the one of
\* the worker registered second (the accessibility agent of the service).
ConvertToBugReport(report) ==
    LET allIssues == report.synthesizedReport.prioritizedIssues
        critical == CountSeverity(allIssues, "critical")
        high == CountSeverity(allIssues, "high")
        medium == CountSeverity(allIssues, "medium")
        low == CountSeverity(allIssues, "low")
    IN  IF "agentFindings" \notin DOMAIN report
        THEN [state |-> "threw", report |-> None]
        ELSE [state |-> "returned",
              report |->
                 [overall |-> Clamp(100 - (critical * 15 + high * 10 + medium * 5 + low * 2)),
                  accessibility |-> Clamp(100 - IssuesOfAgent(report.agentFindings, 2) * 10),
                  totalIssues |-> Len(allIssues),
                  criticalCount |-> critical, highCount |-> high,
                  mediumCount |-> medium, lowCount |-> low, infoCount |-> 0]]

\* ------------------------------------------------------------------ state
Init ==
    /\ agents \in SeqUpTo(AgentKinds, MaxAgents)
    /\ subscribers \in SeqUpTo({"steady", "flaky"}, MaxSubscribers)
    /\ pc = "idle"
    /\ nextIdx = 1
    /\ wpc = [i \in AgentIds |-> "idle"]
    /\ findings = [i \in AgentIds |-> None]
    /\ localIssues = [i \in AgentIds |-> <<>>]
    /\ werror = [i \in AgentIds |-> NoError]
    /\ agentPromises = <<>>
    /\ allFindings = <<>>
    /\ synthesized = None
    /\ executiveSummary = None
    /\ aiRejected = FALSE
    /\ result = None
    /\ failure = NoError
    /\ observed = [id \in 0..NumAgents |-> <<>>]
    /\ aiFailed = {}
    /\ NoBench

\* Variant: the coordinator awaits inside the dispatch loop (one worker after
\* the other), so it is also suspended between two dispatches.
AwaitingWorkersInLoop == pc \in {"dispatch", "join"}

\* The coordinator is suspended at `await Promise.all(agentPromises)`.
AwaitingWorkers == pc = "join"

\* No synchronous code of orchestrate is running, so the event loop can run
\* the continuation of a suspended worker.  The workers are not cancelled
\* when orchestrate has returned or thrown.
EventLoopFree == AwaitingWorkers \/ pc \in {"summary", "done", "rejected"}

\* orchestrate(context) up to the map(): updateProgress(5) is outside the try.
Orchestrate ==
    /\ pc = "idle"
    /\ \E o \in PublishOutcomes :
          /\ observed' = [observed EXCEPT ![0] = @ \o Observed(<<ProgressMsg(5)>>, o)]
          /\ IF o # 0
             THEN pc' = "rejected" /\ failure' = ErrorMessage(o)
             ELSE pc' = (IF NumAgents = 0 THEN "join" ELSE "dispatch") /\ failure' = failure
    /\ UNCHANGED <<agents, subscribers, nextIdx, wpc, findings, localIssues, werror,
                   agentPromises, allFindings, synthesized,
                   executiveSummary, aiRejected, result, aiFailed>>
    /\ UNCHANGED benchVars

\* The choices one call of the map() callback consumes: the outcome oR of the
\* 'Running' publish, the issues iss the rule-based checks find, and the
\* outcomes of the publishes of analyze (o1, oB, oB2, o100, oF) with the
\* position pB (pB2) in its block of the updateProgress call that threw.  A
\* publish after a throw that ends the callback or skips the rest of the try
\* block is not executed, and neither is a publish after the suspension at
\* callAI; the rule-based issues are not stored on these paths, and a block
\* that does not throw has no position of a throw.  Choices that are not
\* consumed keep the value they have in NoThrow.
NoThrow ==
    [oR |-> 0, iss |-> <<>>, o1 |-> 0, oB |-> 0, pB |-> 3, oB2 |-> 0, pB2 |-> 3,
     o100 |-> 0, oF |-> 0]

DispatchChoices(i) ==
    LET throws == PublishOutcomes \ {0}
    IN  (IF agents[i] = "rule"
         THEN {[NoThrow EXCEPT !.iss = s, !.o100 = h, !.oF = f] :
                  s \in SampleIssueLists, h \in PublishOutcomes, f \in PublishOutcomes}
         ELSE {[NoThrow EXCEPT !.iss = s] : s \in SampleIssueLists}
              \cup {[NoThrow EXCEPT !.oB2 = k, !.pB2 = p, !.oF = f] :
                        k \in throws, p \in 1..3, f \in PublishOutcomes})
        \cup {[NoThrow EXCEPT !.oB = k, !.pB = p, !.oF = f] :
                  k \in throws, p \in 1..3, f \in PublishOutcomes}
        \cup {[NoThrow EXCEPT !.o1 = k] : k \in throws}
        \cup {[NoThrow EXCEPT !.oR = k] : k \in throws}

\* One call of the map() callback: updateProgress('Running ...') outside the
\* inner try, then agent.analyze(context) runs to its first suspension.  After
\* the last callback Promise.all is awaited; it rejects at once when a
\* callback has already rejected.
Dispatch ==
    /\ pc = "dispatch"
    /\ nextIdx <= NumAgents
    /\ \E c \in DispatchChoices(nextIdx) :
          LET i == nextIdx
              r == AnalyzeStart(i, MkIssues(c.iss), c.o1, c.oB, c.oB2, c.o100, c.oF)
              ps == Append(agentPromises,
                           IF c.oR # 0 THEN Rejected(c.oR) ELSE MapCallbackResult(i, r))
          IN  /\ agentPromises' = ps
              /\ observed' =
                    [observed EXCEPT
                        ![0] = @ \o Observed(<<ProgressMsg(RunningProgress(i))>>, c.oR),
                        ![i] = IF c.oR # 0 THEN @
                               ELSE @ \o StartMessages(i, c.o1, c.oB, c.pB, c.oB2, c.pB2,
                                                       c.o100, c.oF)]
              /\ IF c.oR # 0
                 THEN UNCHANGED <<wpc, findings, localIssues, werror>>
                 ELSE /\ wpc' = [wpc EXCEPT ![i] = r.state]
                      /\ findings' = [findings EXCEPT ![i] =
                                         IF r.state = "await" THEN r.findings ELSE None]
                      /\ localIssues' = [localIssues EXCEPT ![i] =
                                            IF r.state = "await" THEN MkIssues(c.iss) ELSE <<>>]
                      /\ werror' = [werror EXCEPT ![i] = r.reason]
              /\ nextIdx' = i + 1
              /\ IF i < NumAgents
                 THEN pc' = "dispatch" /\ failure' = failure
                 ELSE IF AnyRejected(ps)
                 THEN /\ pc' = "rejected"
                      /\ failure' = ps[CHOOSE k \in DOMAIN ps :
                                         /\ ps[k].state = "rejected"
                                         /\ \A j \in 1..(k - 1) : ps[j].state # "rejected"].value
                 ELSE pc' = "join" /\ failure' = failure
    /\ UNCHANGED <<agents, subscribers, allFindings, synthesized,
                   executiveSummary, aiRejected, result, aiFailed>>
    /\ UNCHANGED benchVars

\* callAI settles inside worker i and analyze runs to its end.
WorkerResume(i) ==
    /\ EventLoopFree
    /\ wpc[i] = "await"
    /\ \E out \in CallAIOutcomes, o100 \in PublishOutcomes, oF \in PublishOutcomes :
          LET r == AnalyzeResume(i, findings[i], localIssues[i], out = "resolved", o100, oF)
          IN  /\ wpc' = [wpc EXCEPT ![i] = r.state]
              /\ findings' = [findings EXCEPT ![i] = None]
              /\ werror' = [werror EXCEPT ![i] = r.reason]
              /\ agentPromises' = [agentPromises EXCEPT ![i] = MapCallbackResult(i, r)]
              /\ observed' = [observed EXCEPT ![i] = @ \o ResumeMessages(i, o100, oF)]
              /\ aiFailed' = IF out = "resolved" THEN aiFailed ELSE aiFailed \cup {i}
    /\ localIssues' = [localIssues EXCEPT ![i] = <<>>]
    /\ UNCHANGED <<agents, subscribers, pc, nextIdx, allFindings, synthesized,
                   executiveSummary, aiRejected, result, failure>>
    /\ UNCHANGED benchVars

\* Promise.all resolves: this.allFindings is assigned, then updateProgress(75),
\* synthesize, updateProgress(90) and the call of generateExecutiveSummary,
\* which suspends in callAI.
Join ==
    /\ AwaitingWorkers
    /\ AllFulfilled(agentPromises)
    /\ allFindings' = PromiseAllValues(agentPromises)
    /\ \E o75 \in PublishOutcomes, o90 \in PublishOutcomes :
          IF o75 # 0
          THEN /\ pc' = "rejected"
               /\ failure' = ErrorMessage(o75)
               /\ synthesized' = synthesized
               /\ observed' = [observed EXCEPT
                                  ![0] = @ \o Observed(<<ProgressMsg(75)>>, o75)]
          ELSE /\ synthesized' = Synthesize(allFindings')
               /\ observed' = [observed EXCEPT
                                  ![0] = @ \o Observed(<<ProgressMsg(75), ProgressMsg(90)>>, o90)]
               /\ IF o90 # 0
                  THEN pc' = "rejected" /\ failure' = ErrorMessage(o90)
                  ELSE pc' = "summary" /\ failure' = failure
    /\ UNCHANGED <<agents, subscribers, nextIdx, wpc, findings, localIssues, werror,
                   agentPromises, executiveSummary, aiRejected, result, aiFailed>>
    /\ UNCHANGED benchVars

\* callAI settles inside generateExecutiveSummary, which never rejects; then
\* updateProgress(100) and the return of orchestrate.
SummarySettle ==
    /\ pc = "summary"
    /\ \E out \in CallAIOutcomes, text \in AITexts, o \in PublishOutcomes :
          /\ aiRejected' = (out # "resolved")
          /\ observed' = [observed EXCEPT ![0] = @ \o Observed(<<ProgressMsg(100)>>, o)]
          /\ executiveSummary' = IF out = "resolved" THEN text
                                 ELSE FallbackSummary(synthesized)
          /\ IF o # 0
             THEN pc' = "rejected" /\ failure' = ErrorMessage(o) /\ result' = result
             ELSE /\ pc' = "done"
                  /\ failure' = failure
                  /\ result' = [executiveSummary |-> executiveSummary',
                                allFindings |-> allFindings,
                                synthesizedReport |-> synthesized]
    /\ UNCHANGED <<agents, subscribers, nextIdx, wpc, findings, localIssues, werror,
                   agentPromises, allFindings, synthesized, aiFailed>>
    /\ UNCHANGED benchVars

Next ==
    \/ Orchestrate
    \/ Dispatch
    \/ \E i \in AgentIds : WorkerResume(i)
    \/ Join
    \/ SummarySettle

Spec == Init /\ [][Next]_vars

\* The run with its scheduling: the event loop runs every continuation that is
\* ready, and every awaited external call (the AI call of a worker, the AI
\* call of the summary) settles, so a step that is possible is taken.
LiveSpec == Spec /\ WF_vars(Next)

\* ----------------------------------------------- a run with a bus observer
\* The subscriber lists of the observed runs: a recorder, which is invoked
\* with every message that is published, alone or followed by a callback
\* that throws.
TraceSubscribers == {<<"recorder">>, <<"recorder", "flaky">>}

\* The run specification with a recorder subscribed to the bus.
TraceInit ==
    /\ agents \in SeqUpTo(AgentKinds, MaxAgents)
    /\ subscribers \in TraceSubscribers
    /\ pc = "idle"
    /\ nextIdx = 1
    /\ wpc = [i \in AgentIds |-> "idle"]
    /\ findings = [i \in AgentIds |-> None]
    /\ localIssues = [i \in AgentIds |-> <<>>]
    /\ werror = [i \in AgentIds |-> NoError]
    /\ agentPromises = <<>>
    /\ allFindings = <<>>
    /\ synthesized = None
    /\ executiveSummary = None
    /\ aiRejected = FALSE
    /\ result = None
    /\ failure = NoError
    /\ observed = [id \in 0..NumAgents |-> <<>>]
    /\ aiFailed = {}
    /\ NoBench

TraceSpec == TraceInit /\ [][Next]_vars

\* ------------------------------------------------- the bus on its own
\* The callbacks subscribed to the bus under test.  A callback is a function
\* value: subscribing the same function twice registers the same value twice.
\* "subscribes" subscribes the callback "late" when it is invoked,
\* "unsubscribes" calls its own unsubscribe capability (as the listener of
\* Agent.ask does), "clears" calls clear() (as dispose() does).
BusCallbacks == {"steady", "flaky", "subscribes", "unsubscribes", "clears", "late"}

\* this.subscribers.filter(sub => sub !== callback)
Without(subs, cb) == SelectSeq(subs, LAMBDA sub : sub # cb)

\* this.subscribers.forEach(sub => sub(message)): forEach visits the indexes
\* 1..n of the array object arr it was called on, n being its length at the
\* call.  subscribe pushes onto this.subscribers, which is arr itself while
\* `same` holds; unsubscribe and clear assign a new array (cur) to
\* this.subscribers and leave arr alone.  The callback at index o throws
\* (o = 0: none does); nothing catches it, so the iteration ends there.
RECURSIVE Deliver(_, _, _, _, _, _, _)
Deliver(arr, n, k, cur, same, invoked, o) ==
    IF k > n
    THEN [invoked |-> invoked, subs |-> IF same THEN arr ELSE cur, threw |-> 0]
    ELSE LET cb == arr[k]
             inv == Append(invoked, cb)
             now == IF same THEN arr ELSE cur
         IN  IF k = o
             THEN [invoked |-> inv, subs |-> now, threw |-> k]
             ELSE IF cb = "subscribes"
             THEN IF same
                  THEN Deliver(Append(arr, "late"), n, k + 1, cur, TRUE, inv, o)
                  ELSE Deliver(arr, n, k + 1, Append(cur, "late"), FALSE, inv, o)
             ELSE IF cb = "unsubscribes"
             THEN Deliver(arr, n, k + 1, Without(now, cb), FALSE, inv, o)
             ELSE IF cb = "clears"
             THEN Deliver(arr, n, k + 1, <<>>, FALSE, inv, o)
             ELSE Deliver(arr, n, k + 1, cur, same, inv, o)

\* The run variables of a state in which no run is going on.
NoRun ==
    /\ pc = "idle"
    /\ nextIdx = 1
    /\ wpc = <<>>
    /\ findings = <<>>
    /\ localIssues = <<>>
    /\ werror = <<>>
    /\ agentPromises = <<>>
    /\ allFindings = <<>>
    /\ synthesized = None
    /\ executiveSummary = None
    /\ aiRejected = FALSE
    /\ result = None
    /\ failure = NoError
    /\ observed = <<>>
    /\ aiFailed = {}

runVars == <<agents, pc, nextIdx, wpc, findings, localIssues, werror, agentPromises,
             allFindings, synthesized, executiveSummary, aiRejected, result,
             failure, observed, aiFailed>>

\* new MessageBus(): subscribers = [].
BusInit ==
    /\ subscribers = <<>>
    /\ delivery = None
    /\ busOp = [op |-> "new", cb |-> ""]
    /\ clock = 0
    /\ startTime = 0
    /\ calls = <<>>
    /\ NoSession
    /\ agents = <<>>
    /\ NoRun

\* MessageBus.subscribe(callback)
Subscribe(cb) ==
    /\ Len(subscribers) < MaxRegistrations
    /\ subscribers' = Append(subscribers, cb)
    /\ busOp' = [op |-> "subscribe", cb |-> cb]
    /\ delivery' = None
    /\ UNCHANGED <<runVars, clock, startTime, calls, sessionVars>>

\* A call of the capability subscribe(callback) returned.
Unsubscribe(cb) ==
    /\ \E k \in DOMAIN subscribers : subscribers[k] = cb
    /\ subscribers' = Without(subscribers, cb)
    /\ busOp' = [op |-> "unsubscribe", cb |-> cb]
    /\ delivery' = None
    /\ UNCHANGED <<runVars, clock, startTime, calls, sessionVars>>

\* MessageBus.clear()
Clear ==
    /\ subscribers' = <<>>
    /\ busOp' = [op |-> "clear", cb |-> ""]
    /\ delivery' = None
    /\ UNCHANGED <<runVars, clock, startTime, calls, sessionVars>>

\* MessageBus.publish(message), from the call to its return or throw.
Publish ==
    /\ Len(subscribers) <= MaxRegistrations
    /\ \E o \in PublishOutcomes :
          LET r == Deliver(subscribers, Len(subscribers), 1, <<>>, TRUE, <<>>, o)
          IN  /\ subscribers' = r.subs
              /\ delivery' = [snapshot |-> subscribers, invoked |-> r.invoked,
                              threw |-> r.threw]
    /\ busOp' = [op |-> "publish", cb |-> ""]
    /\ UNCHANGED <<runVars, clock, startTime, calls, sessionVars>>

BusNext ==
    \/ \E cb \in BusCallbacks : Subscribe(cb)
    \/ \E cb \in BusCallbacks : Unsubscribe(cb)
    \/ Clear
    \/ Publish

BusSpec == BusInit /\ [][BusNext]_vars

\* ------------------------------------- one worker instance, called again
\* One worker instance on a bus without subscribers; analyze() is called on
\* it up to MaxCalls times, a call possibly before an earlier one has finished
\* (two runAnalysis() calls on the same service share the agent instances).
WorkerInit ==
    /\ agents \in {<<kind>> : kind \in AgentKinds}
    /\ subscribers = <<>>
    /\ delivery = None
    /\ busOp = None
    /\ clock = 0
    /\ startTime = 0
    /\ calls = <<>>
    /\ NoSession
    /\ NoRun

\* Time passes: Date.now() returns a later value.
Tick ==
    /\ clock < MaxClock
    /\ clock' = clock + 1
    /\ UNCHANGED <<runVars, subscribers, delivery, busOp, startTime, calls, sessionVars>>

\* The record of a call of analyze() that has returned at the current time:
\* findings.analysisTime = Date.now() - this.startTime, with the value
\* this.startTime has now.
Returned(call, f, start) ==
    [call EXCEPT !.state = "returned",
                 !.findings = [f EXCEPT !.analysisTime = clock - start],
                 !.ended = clock,
                 !.analysisTime = clock - start]

\* analyze(context) is called: this.startTime = Date.now(), then the body up
\* to its end (DiscoveryAgent) or to the await of callAI (AccessibilityAgent).
AnalyzeCall ==
    /\ Len(calls) < MaxCalls
    /\ startTime' = clock
    /\ \E iss \in SampleIssueLists :
          LET r == AnalyzeStart(1, MkIssues(iss), 0, 0, 0, 0, 0)
              call == [state |-> "await", began |-> clock, issues |-> MkIssues(iss),
                       findings |-> r.findings, ended |-> 0, analysisTime |-> 0]
          IN  calls' = Append(calls, IF r.state = "await" THEN call
                                     ELSE Returned(call, r.findings, startTime'))
    /\ UNCHANGED <<runVars, subscribers, delivery, busOp, clock, sessionVars>>

\* callAI settles inside the c-th call, which runs to its end.
AnalyzeReturn(c) ==
    /\ calls[c].state = "await"
    /\ \E out \in CallAIOutcomes :
          LET r == AnalyzeResume(1, calls[c].findings, calls[c].issues,
                                 out = "resolved", 0, 0)
          IN  calls' = [calls EXCEPT ![c] = Returned(calls[c], r.findings, startTime)]
    /\ UNCHANGED <<runVars, subscribers, delivery, busOp, clock, startTime, sessionVars>>

WorkerNext ==
    \/ Tick
    \/ AnalyzeCall
    \/ \E c \in DOMAIN calls : AnalyzeReturn(c)

WorkerSpec == WorkerInit /\ [][WorkerNext]_vars

\* ------------------------- orchestrate() called again on one coordinator
\* The worker lists of the coordinator that is called more than once.
OverlapAgents == {<<"rule">>, <<"ai", "rule">>}

\* One coordinator instance on a bus without subscribers; orchestrate() is
\* called on it up to MaxCalls times, a call possibly before an earlier one has
\* returned (MultiAgentQAService keeps one coordinator, and its allFindings
\* field, for all its runAnalysis() calls).
OverlapInit ==
    /\ agents \in OverlapAgents
    /\ subscribers = <<>>
    /\ delivery = None
    /\ busOp = None
    /\ clock = 0
    /\ startTime = 0
    /\ calls = <<>>
    /\ NoSession
    /\ NoRun

\* The findings analyze() of worker i returns on a page on which its
\* rule-based checks find iss, when its AI call resolves and no callback throws.
WorkerFindings(i, iss) ==
    LET r == AnalyzeStart(i, MkIssues(iss), 0, 0, 0, 0, 0)
    IN  IF r.state = "await"
        THEN AnalyzeResume(i, r.findings, MkIssues(iss), TRUE, 0, 0).findings
        ELSE r.findings

\* orchestrate(context) is called and runs up to `await Promise.all`; the
\* promises of this call will be fulfilled with the findings its own worker
\* invocations return on the page of this call (values).  The continuations
\* of the workers touch nothing of the coordinator.
OrchestrateCall ==
    /\ Len(runs) < MaxCalls
    /\ \E iss \in SampleIssueLists :
          runs' = Append(runs, [pc |-> "join",
                                values |-> [i \in AgentIds |-> WorkerFindings(i, iss)],
                                synthesized |-> None,
                                result |-> None])
    /\ UNCHANGED <<runVars, subscribers, delivery, busOp, clock, startTime, calls,
                   asks, inbox, issued>>

\* Promise.all of call r resolves: this.allFindings = (its values), then
\* synthesize(this.allFindings) and the call of generateExecutiveSummary,
\* which suspends in callAI.
JoinCall(r) ==
    /\ runs[r].pc = "join"
    /\ allFindings' = runs[r].values
    /\ runs' = [runs EXCEPT ![r].pc = "summary",
                            ![r].synthesized = Synthesize(allFindings')]
    /\ UNCHANGED <<agents, subscribers, pc, nextIdx, wpc, findings, localIssues, werror,
                   agentPromises, synthesized, executiveSummary, aiRejected, result,
                   failure, observed, aiFailed, delivery, busOp, clock, startTime,
                   calls, asks, inbox, issued>>

\* callAI settles inside generateExecutiveSummary of call r, which returns
\* {executiveSummary, allFindings: this.allFindings, synthesizedReport}: the
\* field is read when the call returns, the synthesized report is its local.
ReturnCall(r) ==
    /\ runs[r].pc = "summary"
    /\ \E out \in CallAIOutcomes, text \in AITexts :
          runs' = [runs EXCEPT
                      ![r].pc = "done",
                      ![r].result =
                          [executiveSummary |->
                               IF out = "resolved" THEN text
                               ELSE FallbackSummary(runs[r].synthesized),
                           allFindings |-> allFindings,
                           synthesizedReport |-> runs[r].synthesized]]
    /\ UNCHANGED <<runVars, subscribers, delivery, busOp, clock, startTime, calls,
                   asks, inbox, issued>>

OverlapNext ==
    \/ OrchestrateCall
    \/ \E r \in DOMAIN runs : JoinCall(r)
    \/ \E r \in DOMAIN runs : ReturnCall(r)

OverlapSpec == OverlapInit /\ [][OverlapNext]_vars

\* ------------------------------------------------------ the ask protocol
\* A callback of this bus is <<"listener", a>>, the closure the a-th ask()
\* subscribes; <<"responder", t>>, which answers a QUESTION addressed to agent
\* t by publishing the RESPONSE from inside its callback; or <<"recorder", r>>,
\* which keeps the messages it is invoked with in inbox[r].
Recorders == 1..2

AskSubscribers ==
    { <<>>,
      << <<"responder", 2>> >>,
      << <<"recorder", 1>>, <<"responder", 2>>, <<"recorder", 2>> >> }

\* The (asking agent, target agent) pairs of the ask() calls.
AskPairs == {<<1, 2>>, <<2, 1>>}

\* `${this.id}-to-${targetAgent.id}-${Date.now()}`
CorrelationId(w, t) == <<w, "-to-", t, "-", clock>>

\* The QUESTION message ask() publishes.
QuestionMsg(w, t) ==
    [type |-> "QUESTION", agentId |-> w, target |-> t,
     correlationId |-> CorrelationId(w, t), answer |-> ""]

\* A RESPONSE message to the question q, carrying its correlationId.
ResponseMsg(q, answer) ==
    [type |-> "RESPONSE", agentId |-> q.target, target |-> q.agentId,
     correlationId |-> q.correlationId, answer |-> answer]

RECURSIVE PublishMsg(_, _)
\* One callback is invoked with the message m.  st holds this.subscribers
\* (subs), the asks, the inboxes and the publish calls issued so far.  The
\* listener of an ask that sees a RESPONSE with its correlationId calls its
\* unsubscribe capability and resolve(); resolving a promise again does
\* nothing.
Invoke(cb, st, m) ==
    IF cb[1] = "recorder"
    THEN [st EXCEPT !.inbox[cb[2]] = Append(@, m)]
    ELSE IF cb[1] = "responder"
    THEN IF m.type = "QUESTION" /\ m.target = cb[2]
         THEN PublishMsg(st, ResponseMsg(m, "sync"))
         ELSE st
    ELSE IF m.correlationId = st.asks[cb[2]].correlationId /\ m.type = "RESPONSE"
    THEN [st EXCEPT !.subs = SelectSeq(@, LAMBDA sub : sub # cb),
                    !.asks[cb[2]] = IF @.state = "pending"
                                    THEN [@ EXCEPT !.state = "resolved",
                                                   !.answer = m.answer]
                                    ELSE @]
    ELSE st

\* forEach over arr, the array that was this.subscribers when publish was
\* called: an unsubscribe during the delivery assigns a new array to
\* this.subscribers and does not change arr.
RECURSIVE DeliverTo(_, _, _, _)
DeliverTo(arr, k, st, m) ==
    IF k > Len(arr) THEN st ELSE DeliverTo(arr, k + 1, Invoke(arr[k], st, m), m)

\* MessageBus.publish(m), possibly called from inside a callback.
PublishMsg(st, m) == DeliverTo(st.subs, 1, [st EXCEPT !.issued = Append(@, m)], m)

\* The bus and the asks as one value.
BusState == [subs |-> subscribers, asks |-> asks, inbox |-> inbox, issued |-> issued]

AskInit ==
    /\ subscribers \in AskSubscribers
    /\ asks = <<>>
    /\ inbox = [r \in Recorders |-> <<>>]
    /\ issued = <<>>
    /\ runs = <<>>
    /\ delivery = None
    /\ busOp = None
    /\ clock = 0
    /\ startTime = 0
    /\ calls = <<>>
    /\ agents = <<>>
    /\ NoRun

\* Agent.ask(targetAgent, question) called on agent w: the QUESTION is
\* published, and only then the executor of the promise subscribes the
\* listener.  asked is the position of the QUESTION among the publish calls.
Ask(w, t) ==
    /\ Len(asks) < MaxCalls
    /\ LET st == PublishMsg(BusState, QuestionMsg(w, t))
           a == Len(asks) + 1
       IN  /\ asks' = Append(st.asks,
                             [correlationId |-> CorrelationId(w, t), state |-> "pending",
                              answer |-> "", asked |-> Len(issued) + 1, late |-> FALSE])
           /\ subscribers' = Append(st.subs, <<"listener", a>>)
           /\ inbox' = st.inbox
           /\ issued' = st.issued
    /\ UNCHANGED <<runVars, delivery, busOp, clock, startTime, calls, runs>>

\* The target of the a-th ask answers later, from its own task: it publishes
\* a RESPONSE with the correlationId of the question.
Respond(a) ==
    /\ ~asks[a].late
    /\ LET q == issued[asks[a].asked]
           st == PublishMsg(BusState, ResponseMsg(q, "late"))
       IN  /\ asks' = [st.asks EXCEPT ![a].late = TRUE]
           /\ subscribers' = st.subs
           /\ inbox' = st.inbox
           /\ issued' = st.issued
    /\ UNCHANGED <<runVars, delivery, busOp, clock, startTime, calls, runs>>

AskNext ==
    \/ Tick
    \/ \E pair \in AskPairs : Ask(pair[1], pair[2])
    \/ \E a \in DOMAIN asks : Respond(a)

AskSpec == AskInit /\ [][AskNext]_vars

\* ------------------------------------------- synthesize as a pure function
\* The number of issues of the first n records when the i-th has lens[i].
RECURSIVE SumLens(_, _)
SumLens(lens, n) == IF n = 0 THEN 0 ELSE lens[n] + SumLens(lens, n - 1)

\* The Findings sequences synthesize is applied to: every sequence of up to
\* MaxFindings records that hold up to MaxIssues issues in all, of any
\* severities; the records have different analysis times, and one of the
\* records without issues (deg; 0: none) can be the degraded record of a
\* failed worker.
SynthInit ==
    /\ \E k \in 0..MaxFindings :
          \E lens \in [1..k -> 0..MaxIssues], deg \in 0..k :
             /\ SumLens(lens, k) <= MaxIssues
             /\ deg # 0 => lens[deg] = 0
             /\ \E sevs \in [1..SumLens(lens, k) -> Severity] :
                   /\ agents = [i \in 1..k |-> "rule"]
                   /\ allFindings = [i \in 1..k |->
                         IF i = deg
                         THEN DegradedFindings(i, <<"callback", 1>>)
                         ELSE [agentId |-> i, agentName |-> <<"rule", i>>,
                               category |-> "structure",
                               issues |-> MkIssues([j \in 1..lens[i] |->
                                                       sevs[SumLens(lens, i - 1) + j]]),
                               suggestions |-> <<>>, confidence |-> 100,
                               analysisTime |-> 10 * i + lens[i]]]
    /\ subscribers = <<>>
    /\ pc = "synthInput"
    /\ nextIdx = 1
    /\ wpc = <<>>
    /\ findings = <<>>
    /\ localIssues = <<>>
    /\ werror = <<>>
    /\ agentPromises = <<>>
    /\ synthesized = None
    /\ executiveSummary = None
    /\ aiRejected = FALSE
    /\ result = None
    /\ failure = NoError
    /\ observed = <<>>
    /\ aiFailed = {}
    /\ NoBench

SynthApply ==
    /\ pc = "synthInput"
    /\ synthesized' = Synthesize(allFindings)
    /\ pc' = "synthDone"
    /\ UNCHANGED <<agents, subscribers, nextIdx, wpc, findings, localIssues, werror,
                   agentPromises, allFindings, executiveSummary,
                   aiRejected, result, failure, observed, aiFailed>>
    /\ UNCHANGED benchVars

SynthNext == SynthApply

SynthSpec == SynthInit /\ [][SynthNext]_vars

\* ------------------------------------------------------------- properties
Settled(i) == wpc[i] \in {"returned", "rejected"}

RunEnded == pc \in {"done", "rejected"}

Prioritized == result.synthesizedReport.prioritizedIssues

\* The severities of a sequence of issues.
Sevs(issues) == [k \in DOMAIN issues |-> issues[k].severity]

\* The rank table of the specification's synthesis section.
SpecRank(sev) ==
    IF sev = "critical" THEN 4
    ELSE IF sev = "high" THEN 3
    ELSE IF sev = "medium" THEN 2
    ELSE IF sev = "low" THEN 1
    ELSE 0

\* C1: a run that completes returns exactly one Findings record per
\* registered worker, and the i-th record belongs to the i-th registered
\* worker, whatever the settling order and whichever workers failed.
C1_OneFindingsPerWorker ==
    pc = "done" =>
        /\ Len(result.allFindings) = NumAgents
        /\ \A i \in AgentIds :
              /\ result.allFindings[i].agentId = i
              /\ result.allFindings[i].agentName = AgentName(i)

\* A completed run of two workers in which the second settled before the
\* first (the first awaited its AI call, the second has no suspension point)
\* and one of them failed.
C1_Witness ==
    /\ pc = "done"
    /\ agents = <<"ai", "rule">>
    /\ werror[1] = NoError
    /\ wpc[2] = "rejected"

\* C2: when some workers' analyze rejected (and every worker has settled),
\* the run that has ended has resolved, not rejected, with one record per
\* worker; the failing workers' records have confidence 0 and no issues, and
\* every issue of every other worker is in prioritizedIssues.
C2_FailureIsolated ==
    (/\ RunEnded
     /\ NumAgents > 0
     /\ \A i \in AgentIds : Settled(i)
     /\ \E i \in AgentIds : wpc[i] = "rejected")
    => /\ pc = "done"
       /\ Len(result.allFindings) = NumAgents
       /\ \A i \in AgentIds :
             IF wpc[i] = "rejected"
             THEN /\ result.allFindings[i].confidence = 0
                  /\ result.allFindings[i].issues = <<>>
             ELSE \A k \in DOMAIN result.allFindings[i].issues :
                     \E j \in DOMAIN Prioritized :
                        /\ Prioritized[j].source = AgentName(i)
                        /\ Prioritized[j].title = result.allFindings[i].issues[k].title
                        /\ Prioritized[j].severity = result.allFindings[i].issues[k].severity

\* C3 as stated: the record substituted for a worker whose analyze rejected
\* with reason R has confidence 0, no issues and the single suggestion
\* "Worker failed: R".
C3_WorkerFailedText ==
    \A i \in AgentIds :
        wpc[i] = "rejected" =>
            /\ agentPromises[i].state = "fulfilled"
            /\ agentPromises[i].value.confidence = 0
            /\ agentPromises[i].value.issues = <<>>
            /\ agentPromises[i].value.suggestions = << <<"Worker failed: ", werror[i]>> >>

\* C3 amended: the record substituted for a worker whose analyze rejected
\* with an error of message R has confidence 0, no issues and the single
\* suggestion "Agent failed: R"; it is the record the run returns for it.
C3_AgentFailedText ==
    \A i \in AgentIds :
        wpc[i] = "rejected" =>
            /\ agentPromises[i].state = "fulfilled"
            /\ agentPromises[i].value.confidence = 0
            /\ agentPromises[i].value.issues = <<>>
            /\ agentPromises[i].value.suggestions = << <<"Agent failed: ", werror[i]>> >>
            /\ pc = "done" => result.allFindings[i] = agentPromises[i].value

\* A completed run that returns the record of a worker whose analyze rejected.
C3_Witness ==
    /\ pc = "done"
    /\ \E i \in AgentIds : wpc[i] = "rejected" /\ werror[i] # NoError

\* C4: synthesize has run only if every worker's analyze has settled; while a
\* worker is pending the run is before synthesis.
C4_SynthesisAfterAllSettled ==
    /\ (synthesized # None \/ pc \in {"summary", "done"}) =>
           \A i \in AgentIds : Settled(i)
    /\ (\E i \in AgentIds : wpc[i] = "await") =>
           (synthesized = None /\ pc \notin {"summary", "done"})

\* Synthesis has run over two workers, one AI-assisted that settled last and
\* one whose analyze rejected and was downgraded.
C4_Witness ==
    /\ synthesized # None
    /\ NumAgents = 2
    /\ \E i \in AgentIds : wpc[i] = "rejected"
    /\ \E i \in AgentIds : agents[i] = "ai" /\ wpc[i] = "returned"

\* C5: whenever the coordinator is suspended waiting for the workers'
\* results, the analyze of every registered worker has been started.
C5_AllStartedBeforeWaiting ==
    AwaitingWorkers => \A i \in AgentIds : wpc[i] # "idle"

\* The coordinator waits while the first worker is suspended at its AI call
\* and the worker registered after it has been started as well.
C5_Witness ==
    /\ AwaitingWorkers
    /\ NumAgents = 2
    /\ wpc[1] = "await"
    /\ wpc[2] \in {"await", "returned"}

\* C6: orchestrate rejects only with an error thrown by the synthesis step;
\* no other step, publishing progress messages included, makes it reject.
C6_OnlySynthesisRejects ==
    pc = "rejected" => failure[1] = "synthesis"

\* C7: in prioritizedIssues no issue of strictly higher rank comes after an
\* issue of strictly lower rank (critical 4, high 3, medium 2, low 1, any
\* other severity 0).
C7_SeverityDescending ==
    pc = "synthDone" =>
        \A a, b \in DOMAIN synthesized.prioritizedIssues :
            a < b => SpecRank(synthesized.prioritizedIssues[a].severity)
                       >= SpecRank(synthesized.prioritizedIssues[b].severity)

\* synthesize had to reorder at least three issues, one of them of an
\* unrecognized severity.
C7_Witness ==
    /\ pc = "synthDone"
    /\ Len(synthesized.prioritizedIssues) >= 3
    /\ synthesized.prioritizedIssues # FlatMapIssues(allFindings)
    /\ \E k \in DOMAIN synthesized.prioritizedIssues :
          synthesized.prioritizedIssues[k].severity = "info"

\* C8: issues of equal severity keep the order of the concatenation of the
\* Findings in registration order; A = [critical, high, low] and
\* B = [critical, medium] give [A.critical, B.critical, A.high, B.medium, A.low].
C8_StableByRegistration ==
    pc = "done" =>
        /\ \A a, b \in DOMAIN Prioritized :
              (a < b /\ Prioritized[a].severity = Prioritized[b].severity) =>
                  \/ Prioritized[a].source[2] < Prioritized[b].source[2]
                  \/ /\ Prioritized[a].source = Prioritized[b].source
                     /\ Prioritized[a].title < Prioritized[b].title
        /\ (/\ NumAgents = 2
            /\ Sevs(result.allFindings[1].issues) = <<"critical", "high", "low">>
            /\ Sevs(result.allFindings[2].issues) = <<"critical", "medium">>)
           => Prioritized =
                 << [severity |-> "critical", title |-> 1, source |-> AgentName(1)],
                    [severity |-> "critical", title |-> 1, source |-> AgentName(2)],
                    [severity |-> "high", title |-> 2, source |-> AgentName(1)],
                    [severity |-> "medium", title |-> 2, source |-> AgentName(2)],
                    [severity |-> "low", title |-> 3, source |-> AgentName(1)] >>

\* The run of the example has completed, B (no suspension point) having
\* settled before A (which awaited its AI call).
C8_Witness ==
    /\ pc = "done"
    /\ agents = <<"ai", "rule">>
    /\ Sevs(result.allFindings[1].issues) = <<"critical", "high", "low">>
    /\ Sevs(result.allFindings[2].issues) = <<"critical", "medium">>

RECURSIVE SumIssues(_)
SumIssues(fs) == IF fs = <<>> THEN 0 ELSE Len(Head(fs).issues) + SumIssues(Tail(fs))

C10_FallbackSummaryReturned ==
    (RunEnded /\ aiRejected) =>
        /\ executiveSummary # <<>>
        /\ executiveSummary[1] = "Multi-agent analysis complete. Found "
        /\ executiveSummary[2] = Len(synthesized.prioritizedIssues)
        /\ pc = "done"
        /\ result.executiveSummary = executiveSummary

\* C11: with zero workers registered, a run that has ended has resolved with
\* allFindings = [], prioritizedIssues = [] and, as its executive summary, the
\* fallback text stating that zero issues were found.
C11_ZeroWorkersFallback ==
    (NumAgents = 0 /\ RunEnded) =>
        /\ pc = "done"
        /\ result.allFindings = <<>>
        /\ Prioritized = <<>>
        /\ result.executiveSummary =
              <<"Multi-agent analysis complete. Found ", 0,
                " issues across ", 0, " specialized agents.">>

\* The callbacks that change the subscriber list when they are invoked.
Mutators == {"subscribes", "unsubscribes", "clears"}

\* C12: a publish call invokes every callback registered when it was called,
\* once each and in subscription order; after a call of a callback's
\* unsubscribe capability the callback is no longer registered and the other
\* callbacks are registered as before, in the same order; after clear() no
\* callback is registered (so none of them is invoked by a later publish).
C12_DeliveryContract ==
    /\ [](delivery # None => delivery.invoked = delivery.snapshot)
    /\ [][/\ busOp'.op = "unsubscribe" =>
                /\ \A k \in DOMAIN subscribers' : subscribers'[k] # busOp'.cb
                /\ subscribers' = SelectSeq(subscribers, LAMBDA sub : sub # busOp'.cb)
          /\ busOp'.op = "clear" => subscribers' = <<>>]_vars

\* C13: when a callback throws during a publish, every callback registered
\* after it is still invoked with the message.
C13_ErrorIsolation ==
    (delivery # None /\ delivery.threw # 0) =>
        \A k \in DOMAIN delivery.snapshot :
            k > delivery.threw =>
                /\ k \in DOMAIN delivery.invoked
                /\ delivery.invoked[k] = delivery.snapshot[k]

\* C14: a delivery during which a callback called subscribe, unsubscribe or
\* clear invokes exactly the callbacks registered when publish was called, once
\* each (the callback subscribed during the delivery is not among them unless
\* it was registered before).
C14_ReentrantMutationSafe ==
    (/\ delivery # None
     /\ \E k \in DOMAIN delivery.invoked : delivery.invoked[k] \in Mutators)
    => /\ Len(delivery.invoked) = Len(delivery.snapshot)
       /\ \A k \in DOMAIN delivery.snapshot : delivery.invoked[k] = delivery.snapshot[k]

IsProgress(m) == m.type = "PROGRESS_UPDATE"

\* The progress values of the PROGRESS_UPDATE messages among msgs, in order.
ProgressValues(msgs) ==
    LET ps == SelectSeq(msgs, IsProgress) IN [k \in DOMAIN ps |-> ps[k].payload]

\* C15: of the messages of one run observed under one agent id (a worker's or
\* the coordinator's), the PROGRESS_UPDATE messages carry progress values
\* between 0 and 100, none of them smaller than the one before it.
C15_ProgressMonotone ==
    \A id \in DOMAIN observed :
        LET ps == ProgressValues(observed[id])
        IN  \A k \in DOMAIN ps :
                /\ ps[k] >= 0
                /\ ps[k] <= 100
                /\ k > 1 => ps[k - 1] <= ps[k]

\* A completed run of an AI-assisted and a rule-based worker, every message of
\* which was observed: six progress messages of the coordinator, the second
\* worker's messages published while the first was suspended at its AI call.
C15_Witness ==
    /\ pc = "done"
    /\ agents = <<"ai", "rule">>
    /\ subscribers[1] = "recorder"
    /\ Len(observed[0]) = 6
    /\ Len(observed[1]) = 9
    /\ Len(observed[2]) = 6

\* Worker i published a PROGRESS_UPDATE with progress 100.
Has100(i) ==
    \E k \in DOMAIN observed[i] : IsProgress(observed[i][k]) /\ observed[i][k].payload = 100

\* analyze of worker i returned findings without having taken its error path.
Succeeded(i) ==
    /\ wpc[i] = "returned"
    /\ agentPromises[i].value.confidence >= BaseConfidence(agents[i])

\* C16: with an observer that is invoked with every published message, a
\* worker whose analyze has settled has published progress 100 if and only if
\* it completed successfully, and then 100 is its last progress value.
C16_HundredIffSuccess ==
    subscribers[1] = "recorder" =>
        \A i \in AgentIds :
            Settled(i) =>
                /\ Has100(i) <=> Succeeded(i)
                /\ Succeeded(i) =>
                      \A k \in DOMAIN observed[i] :
                          (/\ IsProgress(observed[i][k])
                           /\ \A j \in DOMAIN observed[i] :
                                 j > k => ~IsProgress(observed[i][j]))
                          => observed[i][k].payload = 100

\* The FINDINGS messages observed under the id of worker i.
FindingsCount(i) ==
    Cardinality({k \in DOMAIN observed[i] : observed[i][k].type = "FINDINGS"})

\* C17: in a completed run whose every message was observed, each worker has
\* published exactly one FINDINGS message, after all its PROGRESS_UPDATE
\* messages, and the FINDINGS messages are as many as the records of
\* allFindings.
C17_OneFindingsMessagePerWorker ==
    (pc = "done" /\ subscribers[1] = "recorder") =>
        /\ \A i \in AgentIds :
              /\ FindingsCount(i) = 1
              /\ observed[i][Len(observed[i])].type = "FINDINGS"
        /\ Cardinality(UNION {{<<i, k>> : k \in {j \in DOMAIN observed[i] :
                                          observed[i][j].type = "FINDINGS"}} :
                              i \in AgentIds})
           = Len(result.allFindings)

\* C18: when callAI rejects inside worker i, the analyze of worker i returns
\* (it does not reject): the record of worker i holds the issues its
\* rule-based checks found, a confidence no higher than the worker's base
\* value, and is not the degraded confidence-0 record of the coordinator.
C18_AIFailureCaughtLocally ==
    [][\A i \in AgentIds :
          (i \in aiFailed' /\ i \notin aiFailed) =>
              /\ wpc'[i] = "returned"
              /\ agentPromises'[i].state = "fulfilled"
              /\ agentPromises'[i].value.issues = localIssues[i]
              /\ agentPromises'[i].value.confidence <= BaseConfidence(agents[i])
              /\ agentPromises'[i].value.confidence # 0
              /\ agentPromises'[i].value.category # "error"]_vars

\* C19: every orchestrate invocation whose workers and whose summary call
\* settle eventually returns its full report.
C19_RunCompletes == <>(pc = "done" /\ result # None)

\* C20: the analysisTime of the findings a call of analyze returns is not
\* negative and is the time from that call's own start to its return, also
\* when the same worker instance was called again in between.
C20_AnalysisTimeOfOwnRun ==
    \A c \in DOMAIN calls :
        calls[c].state = "returned" =>
            /\ calls[c].analysisTime >= 0
            /\ calls[c].analysisTime = calls[c].ended - calls[c].began

\* The coordinator has published the PROGRESS_UPDATE with progress p.
CoordinatorPublished(p) ==
    \E k \in DOMAIN observed[0] : observed[0][k] = ProgressMsg(p)

\* The progress values the coordinator publishes in a run that goes through
\* every phase: 5, one 'Running' value per worker, 75, 90, 100.
PhaseProgress ==
    <<5>> \o [i \in AgentIds |-> RunningProgress(i)] \o <<75, 90, 100>>

\* C21: observed on the bus, a run goes through its phases in order: the
\* coordinator's first message (5) is published before any worker message, no
\* worker message is published once 'synthesizing' (75) is, 90 is published
\* after synthesize has run, and 'complete' (100) is the last message of the
\* run and is published only when the run returns its report; a run that
\* returns has published 5, one 'Running' value per worker, 75, 90 and 100,
\* each once and in this order.
C21_PhasesInOrder ==
    /\ [](/\ \A i \in AgentIds : observed[i] # <<>> => CoordinatorPublished(5)
          /\ CoordinatorPublished(75) => \A i \in AgentIds : Settled(i)
          /\ CoordinatorPublished(90) => synthesized # None
          /\ CoordinatorPublished(100) => (pc = "done" /\ result # None)
          /\ pc = "done" => ProgressValues(observed[0]) = PhaseProgress)
    /\ [][/\ CoordinatorPublished(75) =>
                \A i \in AgentIds : observed'[i] = observed[i]
          /\ CoordinatorPublished(100) => observed' = observed]_vars

\* The number of PROGRESS_UPDATE messages observed under agent id.
ProgressCount(msgs) == Len(ProgressValues(msgs))

\* C22: the coordinator's stream stays in its phase bands (its first value
\* within 0..10, the values of the dispatch/await phase within 10..75), and it
\* advances whenever a worker reports progress: a step in which a worker
\* publishes progress messages also publishes as many coordinator values,
\* within 10..75 and none smaller than the coordinator's value before.
C22_BlendedProgress ==
    /\ [](LET ps == ProgressValues(observed[0])
          IN  \A k \in DOMAIN ps :
                 /\ k = 1 => (ps[k] >= 0 /\ ps[k] <= 10)
                 /\ (k > 1 /\ k <= 1 + NumAgents) => (ps[k] >= 10 /\ ps[k] <= 75))
    /\ [][\A i \in AgentIds :
             ProgressCount(observed'[i]) > ProgressCount(observed[i]) =>
                LET ps == ProgressValues(observed'[0])
                    n == ProgressCount(observed[0])
                IN  /\ Len(ps) - n >= ProgressCount(observed'[i]) - ProgressCount(observed[i])
                    /\ \A k \in (n + 1)..Len(ps) :
                          /\ ps[k] >= 10 /\ ps[k] <= 75
                          /\ k > 1 => ps[k - 1] <= ps[k]]_vars

\* The positions (record, issue) of the issues of severity sev in fs.
IssuesOfSeverity(fs, sev) ==
    UNION {{<<i, k>> : k \in {j \in DOMAIN fs[i].issues : fs[i].issues[j].severity = sev}} :
           i \in DOMAIN fs}

\* C24: the stats of a synthesized report match its issues: totalIssues is
\* the length of prioritizedIssues, each of critical/high/medium/low is the
\* number of issues of exactly that severity over all Findings, and agentStats
\* has one entry per Findings record, in the order of the records, with that
\* record's name, number of issues, confidence and analysis time (issuesFound
\* 0 and confidence 0 for the degraded record of a failed worker).
C24_StatsMatchIssues ==
    pc = "synthDone" =>
        LET s == synthesized.summary
            fs == allFindings
        IN  /\ s.totalIssues = Len(synthesized.prioritizedIssues)
            /\ s.critical = Cardinality(IssuesOfSeverity(fs, "critical"))
            /\ s.high = Cardinality(IssuesOfSeverity(fs, "high"))
            /\ s.medium = Cardinality(IssuesOfSeverity(fs, "medium"))
            /\ s.low = Cardinality(IssuesOfSeverity(fs, "low"))
            /\ Len(s.agentStats) = Len(fs)
            /\ \A i \in DOMAIN fs :
                  /\ s.agentStats[i].agent = fs[i].agentName
                  /\ s.agentStats[i].issuesFound = Len(fs[i].issues)
                  /\ s.agentStats[i].confidence = fs[i].confidence
                  /\ s.agentStats[i].analysisTime = fs[i].analysisTime
                  /\ fs[i].category = "error" =>
                        (/\ s.agentStats[i].issuesFound = 0
                         /\ s.agentStats[i].confidence = 0)

\* synthesize has run over two records: the degraded record of a failed worker
\* and, after it, a record with three issues of which two are critical and one
\* has an unranked severity.
C24_Witness ==
    /\ pc = "synthDone"
    /\ Len(allFindings) = 2
    /\ allFindings[1].category = "error"
    /\ Sevs(allFindings[2].issues) = <<"info", "critical", "critical">>
    /\ synthesized.summary.agentStats[2].analysisTime = 23

\* C30: in every synthesized report totalIssues is the sum of the critical,
\* high, medium and low counts, whatever severities the issues have.
C30_TotalIsSumOfCounts ==
    pc = "synthDone" =>
        synthesized.summary.totalIssues =
            synthesized.summary.critical + synthesized.summary.high
            + synthesized.summary.medium + synthesized.summary.low

\* C26: the report runAnalysis returns for a completed run has the field
\* agentFindings, holding the per-worker findings of the run, and
\* convertToBugReport applied to it returns a BugReport.
C26_ReportConvertible ==
    pc = "done" =>
        LET report == RunAnalysis(result, clock)
        IN  /\ "agentFindings" \in DOMAIN report
            /\ report.agentFindings = result.allFindings
            /\ ConvertToBugReport(report).state = "returned"

\* The number of registrations of the callback cb in subs.
Registrations(subs, cb) == Cardinality({k \in DOMAIN subs : subs[k] = cb})

\* C29: a call of an unsubscribe capability removes one registration of its
\* callback (the one its subscribe call created) and leaves every other
\* registration in place, in order: of a callback subscribed twice one
\* registration remains; a call for a callback that is not registered any
\* more (a second call, a call after clear()) changes nothing.
C29_UnsubscribeRemovesOwnRegistration ==
    [][busOp'.op = "unsubscribe" =>
          LET cb == busOp'.cb
              n == Registrations(subscribers, cb)
          IN  /\ Registrations(subscribers', cb) = (IF n = 0 THEN 0 ELSE n - 1)
              /\ SelectSeq(subscribers', LAMBDA sub : sub # cb)
                 = SelectSeq(subscribers, LAMBDA sub : sub # cb)
              /\ n = 0 => subscribers' = subscribers]_vars

\* C25: every orchestrate call on a shared coordinator returns its own data:
\* the allFindings it returns is the agentFindings of the synthesized report it
\* returns, and is the sequence of findings of its own worker invocations,
\* also when another call reached its join in between.
C25_OverlappingCallsKeepOwnFindings ==
    \A r \in DOMAIN runs :
        runs[r].pc = "done" =>
            /\ runs[r].result.allFindings = runs[r].result.synthesizedReport.agentFindings
            /\ runs[r].result.allFindings = runs[r].values

\* The asks of which a step resolved the promise.
ResolvedBy(before, after) ==
    {a \in DOMAIN before : before[a].state = "pending" /\ after[a].state = "resolved"}

\* The RESPONSE messages among the publish calls from position n on.
ResponsesFrom(n) ==
    {k \in DOMAIN issued : k >= n /\ issued[k].type = "RESPONSE"}

\* C23: no two ask calls carry the same correlationId (no two QUESTION
\* messages do, also when the same agent asks the same target twice with no
\* clock tick in between), and the publication of one RESPONSE resolves no
\* more than the one ask it answers.
C23_CorrelationIdUnique ==
    /\ [](/\ \A a, b \in DOMAIN asks :
                a # b => asks[a].correlationId # asks[b].correlationId
          /\ \A j, k \in DOMAIN issued :
                (j # k /\ issued[j].type = "QUESTION" /\ issued[k].type = "QUESTION")
                => issued[j].correlationId # issued[k].correlationId)
    /\ [][Len(issued') = Len(issued) + 1 =>
             Cardinality(ResolvedBy(asks, asks')) <= 1]_vars

\* C27: an ask of which a RESPONSE with its correlationId has been published
\* after its QUESTION (from inside a callback invoked with the QUESTION
\* included) is resolved, with the answer of the first such RESPONSE, and the
\* listener of a resolved ask is not registered on the bus.
C27_ResponseResolvesAsk ==
    \A a \in DOMAIN asks :
        LET rs == {k \in ResponsesFrom(asks[a].asked + 1) :
                      issued[k].correlationId = asks[a].correlationId}
        IN  /\ rs # {} =>
                  /\ asks[a].state = "resolved"
                  /\ asks[a].answer = issued[CHOOSE k \in rs : \A j \in rs : k <= j].answer
            /\ asks[a].state = "resolved" =>
                  \A k \in DOMAIN subscribers : subscribers[k] # <<"listener", a>>

\* C28: every callback that is subscribed throughout has received the
\* messages in the order in which the publish calls were issued; a message
\* published from inside a callback is received by no callback before the
\* message that was being delivered.
C28_SameOrderForAllSubscribers ==
    \A k \in DOMAIN subscribers :
        subscribers[k][1] = "recorder" => inbox[subscribers[k][2]] = issued
====
